---- MODULE Spec2Model ----
(***************************************************************************)
(* Verification model of reminderbot: the matrix sync loop, the event      *)
(* handler, the reminder store and dispatcher, the cancellation flag and   *)
(* the human datetime parser.                                              *)
(***************************************************************************)
EXTENDS Integers, Sequences, FiniteSets, TLC

(***************************************************************************)
(* Strings.  A phrase is a TLA+ string; the regular expressions of the     *)
(* source are hand-translated into matchers over it.                       *)
(***************************************************************************)

\* The i-th character of s as a one-character string ("" out of range).
Ch(s, i) == IF i >= 1 /\ i <= Len(s) THEN SubSeq(s, i, i) ELSE ""

\* The literal p occurs in s at position i.
StartsAt(s, i, p) == i >= 1 /\ i + Len(p) - 1 <= Len(s) /\ SubSeq(s, i, i + Len(p) - 1) = p

\* The rest of s from position i on.
From(s, i) == IF i > Len(s) THEN "" ELSE SubSeq(s, i, Len(s))

\* regex class \s
IsSpace(c) == c \in {" ", "\t"}

\* regex classes \d and [0-9]
IsDigit(c) == c \in {"0", "1", "2", "3", "4", "5", "6", "7", "8", "9"}

DigitVal(c) ==
    CASE c = "0" -> 0 [] c = "1" -> 1 [] c = "2" -> 2 [] c = "3" -> 3 [] c = "4" -> 4
      [] c = "5" -> 5 [] c = "6" -> 6 [] c = "7" -> 7 [] c = "8" -> 8 [] c = "9" -> 9

\* regex \s* from position i: the first position at or after i that holds no whitespace.
RECURSIVE SkipSpaces(_, _)
SkipSpaces(s, i) == IF IsSpace(Ch(s, i)) THEN SkipSpaces(s, i + 1) ELSE i

\* regex [0-9]+ / \d+ from position i: the position after the longest run of digits.
RECURSIVE SkipDigits(_, _)
SkipDigits(s, i) == IF IsDigit(Ch(s, i)) THEN SkipDigits(s, i + 1) ELSE i

\* char::to_lowercase on ASCII
LowerCh(c) ==
    CASE c = "A" -> "a" [] c = "B" -> "b" [] c = "C" -> "c" [] c = "D" -> "d"
      [] c = "E" -> "e" [] c = "F" -> "f" [] c = "G" -> "g" [] c = "H" -> "h"
      [] c = "I" -> "i" [] c = "J" -> "j" [] c = "K" -> "k" [] c = "L" -> "l"
      [] c = "M" -> "m" [] c = "N" -> "n" [] c = "O" -> "o" [] c = "P" -> "p"
      [] c = "Q" -> "q" [] c = "R" -> "r" [] c = "S" -> "s" [] c = "T" -> "t"
      [] c = "U" -> "u" [] c = "V" -> "v" [] c = "W" -> "w" [] c = "X" -> "x"
      [] c = "Y" -> "y" [] c = "Z" -> "z"
      [] OTHER -> c

\* str::to_lowercase
RECURSIVE to_lowercase(_)
to_lowercase(s) == IF s = "" THEN "" ELSE LowerCh(Ch(s, 1)) \o to_lowercase(From(s, 2))

\* str::trim
RECURSIVE TrimEnd(_)
TrimEnd(s) == IF s # "" /\ IsSpace(Ch(s, Len(s))) THEN TrimEnd(SubSeq(s, 1, Len(s) - 1)) ELSE s

trim(s) == TrimEnd(From(s, SkipSpaces(s, 1)))

(***************************************************************************)
(* Instants.  A DateTime<Utc> is [day, sec, sub]: days since 1970-01-01,   *)
(* second of the day, and the sub-second part in units of 1/Subs second.   *)
(***************************************************************************)

\* Sub-second resolution of the model: instants are multiples of 1/Subs second.
Subs == 2

DaySecs == 24 * 3600

DT(day, sec, sub) == [day |-> day, sec |-> sec, sub |-> sub]

\* DateTime ordering (<)
DtLt(a, b) ==
    \/ a.day < b.day
    \/ a.day = b.day /\ a.sec < b.sec
    \/ a.day = b.day /\ a.sec = b.sec /\ a.sub < b.sub

DtLe(a, b) == ~DtLt(b, a)

\* DateTime::timestamp: whole seconds since the epoch, the sub-second part dropped.
\* Kept as [day, sec] because the count of seconds exceeds TLC's 32-bit integers.
timestamp(dt) == [day |-> dt.day, sec |-> dt.sec]

TsLe(a, b) == a.day < b.day \/ (a.day = b.day /\ a.sec <= b.sec)

IsLeap(y) == (y % 4 = 0 /\ y % 100 # 0) \/ y % 400 = 0

DaysInMonth(y, m) ==
    CASE m \in {1, 3, 5, 7, 8, 10, 12} -> 31
      [] m \in {4, 6, 9, 11} -> 30
      [] OTHER -> IF IsLeap(y) THEN 29 ELSE 28

\* Days since 1970-01-01 of the proleptic Gregorian date y-m-d.
DaysFromCivil(y, m, d) ==
    LET yy  == IF m <= 2 THEN y - 1 ELSE y
        era == yy \div 400
        yoe == yy - era * 400
        mp  == ((m + 9) % 12)
        doy == (153 * mp + 2) \div 5 + d - 1
        doe == yoe * 365 + yoe \div 4 - yoe \div 100 + doy
    IN  era * 146097 + doe - 719468

\* The date [y, m, d] of a day number.
CivilFromDays(z0) ==
    LET Month(mp) == IF mp < 10 THEN mp + 3 ELSE mp - 9
        Date(era, yoe, doy, mp) ==
            [y |-> yoe + era * 400 + (IF Month(mp) <= 2 THEN 1 ELSE 0),
             m |-> Month(mp),
             d |-> doy - (153 * mp + 2) \div 5 + 1]
        OfDoy(era, yoe, doy) == Date(era, yoe, doy, (5 * doy + 2) \div 153)
        OfYoe(era, doe, yoe) ==
            OfDoy(era, yoe, doe - (365 * yoe + yoe \div 4 - yoe \div 100))
        OfDoe(era, doe) ==
            OfYoe(era, doe, (doe - doe \div 1460 + doe \div 36524 - doe \div 146096) \div 365)
        OfEra(z, era) == OfDoe(era, z - era * 146097)
        OfZ(z) == OfEra(z, z \div 146097)
    IN  OfZ(z0 + 719468)

\* Datelike::year / month / day
YearOf(dt) == CivilFromDays(dt.day).y
MonthOf(dt) == CivilFromDays(dt.day).m
DayOf(dt) == CivilFromDays(dt.day).d

\* Weekday::num_days_from_monday of the instant's date (1970-01-01 was a Thursday).
num_days_from_monday(dt) == (dt.day + 3) % 7

\* Weekday::number_from_monday
number_from_monday(dt) == num_days_from_monday(dt) + 1

\* The last day chrono's NaiveDate can hold.
MaxDay == DaysFromCivil(262143, 12, 31)

\* Option values of the with_* setters and of the additions.
Some(v) == [some |-> TRUE, v |-> v]
None == [some |-> FALSE]

\* Timelike::with_hour / with_minute / with_second: None when out of range.
with_hour(dt, h) ==
    IF h > 23 THEN None ELSE Some(DT(dt.day, h * 3600 + (dt.sec % 3600), dt.sub))

with_minute(dt, mi) ==
    IF mi > 59 THEN None
    ELSE Some(DT(dt.day, (dt.sec \div 3600) * 3600 + mi * 60 + (dt.sec % 60), dt.sub))

with_second(dt, s) ==
    IF s > 59 THEN None ELSE Some(DT(dt.day, (dt.sec \div 60) * 60 + s, dt.sub))

\* Datelike::with_year / with_month / with_day: None when the date does not exist.
with_year(dt, y) ==
    LET Set(c) ==
            IF y > 262143 \/ c.d > DaysInMonth(y, c.m) THEN None
            ELSE Some(DT(DaysFromCivil(y, c.m, c.d), dt.sec, dt.sub))
    IN  Set(CivilFromDays(dt.day))

with_month(dt, m) ==
    LET Set(c) ==
            IF m < 1 \/ m > 12 THEN None
            ELSE IF c.d > DaysInMonth(c.y, m) THEN None
            ELSE Some(DT(DaysFromCivil(c.y, m, c.d), dt.sec, dt.sub))
    IN  Set(CivilFromDays(dt.day))

with_day(dt, d) ==
    LET Set(c) ==
            IF d < 1 \/ d > DaysInMonth(c.y, c.m) THEN None
            ELSE Some(DT(DaysFromCivil(c.y, c.m, d), dt.sec, dt.sub))
    IN  Set(CivilFromDays(dt.day))

\* A chrono Duration of whole seconds, kept as [days, secs] with secs < DaySecs.
Dur(days, secs) == [days |-> days + secs \div DaySecs, secs |-> secs % DaySecs]

\* DateTime + Duration: None where chrono panics with "`DateTime + Duration` overflowed".
AddDur(dt, dur) ==
    LET s == dt.sec + dur.secs
        d == dt.day + dur.days + s \div DaySecs
    IN  IF d > MaxDay THEN None ELSE Some(DT(d, s % DaySecs, dt.sub))

\* now + Duration::days(n), for the small n that cannot overflow
AddDays(dt, n) == DT(dt.day + n, dt.sec, dt.sub)

\* fn set_to_morning
set_to_morning(n) == DT(n.day, 9 * 3600 + 30 * 60, n.sub)

(***************************************************************************)
(* The human datetime parser (date.rs).                                    *)
(***************************************************************************)

\* Result<Option<DateTime>> / Result<DateTime>: a date, no match, an Err, or a panic.
ROk(d) == [tag |-> "ok", date |-> d]
RNone == [tag |-> "none"]
RErr == [tag |-> "err"]
RPanic == [tag |-> "panic"]

NoMatch == [matched |-> FALSE]

\* The smallest element of a non-empty set of integers.
MinOf(S) == CHOOSE n \in S : \A k \in S : n <= k

\* A regex alternation (a|b|...) at position k: the first alternative, in the
\* order written, that occurs there ("" when none does).  x? is written as the
\* two alternatives "x present", "x absent", the greedy one first.
FirstAlt(s, k, alts) ==
    LET First(hits) == IF hits = {} THEN "" ELSE alts[MinOf(hits)]
    IN  First({n \in 1..Len(alts) : StartsAt(s, k, alts[n])})

\* (s|seconds?|m|minutes?|h|hours?|d|days?|w|weeks?|months?|years?)
UnitAlts ==
    <<"s", "seconds", "second", "m", "minutes", "minute", "h", "hours", "hour",
      "d", "days", "day", "w", "weeks", "week", "months", "month", "years", "year">>

\* ([0-9]+|half an?|a couple of|a few) at position i: the position after it, 0 when absent.
CountEnd(s, i) ==
    IF IsDigit(Ch(s, i)) THEN SkipDigits(s, i)
    ELSE IF StartsAt(s, i, "half an") THEN i + 7
    ELSE IF StartsAt(s, i, "half a") THEN i + 6
    ELSE IF StartsAt(s, i, "a couple of") THEN i + 11
    ELSE IF StartsAt(s, i, "a few") THEN i + 5
    ELSE 0

\* ^in\s*(count)\s*(unit): the two capture groups.
relative_time_regex(input) ==
    LET Unit(i, j, u) ==
            IF u = "" THEN NoMatch
            ELSE [matched |-> TRUE, g1 |-> SubSeq(input, i, j - 1), g2 |-> u]
        Count(i, j) ==
            IF j = 0 THEN NoMatch
            ELSE Unit(i, j, FirstAlt(input, SkipSpaces(input, j), UnitAlts))
        In(i) == Count(i, CountEnd(input, i))
    IN  IF ~StartsAt(input, 1, "in") THEN NoMatch ELSE In(SkipSpaces(input, 3))

\* The largest count parse_in_clause accepts.
MaxNumber == 10000000

\* str::parse of a run of digits; every value above MaxNumber is reported as MaxNumber + 1.
RECURSIVE NumValFrom(_, _, _)
NumValFrom(s, i, acc) ==
    LET Cap(v) == IF v > MaxNumber THEN MaxNumber + 1 ELSE v
    IN  IF i > Len(s) THEN acc ELSE NumValFrom(s, i + 1, Cap(acc * 10 + DigitVal(Ch(s, i))))

NumVal(s) == NumValFrom(s, 1, 0)

\* The f64 `number` of parse_in_clause: one half, or a whole number n.
CountOf(g1) ==
    CASE g1 \in {"half a", "half an"} -> [half |-> TRUE, n |-> 0]
      [] g1 = "a couple of" -> [half |-> FALSE, n |-> 2]
      [] g1 = "a few" -> [half |-> FALSE, n |-> 3]
      [] OTHER -> [half |-> FALSE, n |-> NumVal(g1)]

\* fn get_duration_from_string, in seconds; None is the panic of the last arm.
get_duration_from_string(s) ==
    CASE s \in {"s", "second", "seconds"} -> Some(1)
      [] s \in {"m", "minute", "minutes"} -> Some(60)
      [] s \in {"h", "hour", "hours"} -> Some(3600)
      [] s \in {"d", "day", "days"} -> Some(DaySecs)
      [] s \in {"w", "week", "weeks"} -> Some(7 * DaySecs)
      [] s \in {"month", "months"} -> Some(30 * DaySecs)
      [] s \in {"year", "years"} -> Some(365 * DaySecs)
      [] OTHER -> None

\* now + Duration::seconds((dur.num_seconds() as f64 * number) as i64); None is the
\* overflow panic of the addition.  The product is formed in days and seconds.
AddScaled(now, u, number) ==
    IF number.half THEN AddDur(now, Dur(0, u \div 2))
    ELSE IF u >= DaySecs
         THEN IF number.n > MaxDay \div (u \div DaySecs) THEN None
              ELSE AddDur(now, Dur((u \div DaySecs) * number.n, 0))
         ELSE LET per == DaySecs \div u
              IN  AddDur(now, Dur(number.n \div per, (number.n % per) * u))

\* fn parse_in_clause
parse_in_clause(input, now) ==
    LET \* if now + Duration::hours(48) < date { date = set_to_morning(date) }
        Morning(date) ==
            IF ~date.some THEN RPanic
            ELSE IF DtLt(AddDays(now, 2), date.v) THEN ROk(set_to_morning(date.v))
            ELSE ROk(date.v)
        \* if number >= 1.0 { match dtype { month => with_day, year => with_year } }
        CleanUp(number, dtype, date) ==
            IF ~date.some THEN RPanic
            ELSE Morning(IF ~number.half /\ number.n >= 1
                         THEN CASE dtype \in {"month", "months"} -> with_day(date.v, DayOf(now))
                                [] dtype \in {"year", "years"} ->
                                      with_year(now, YearOf(now) + number.n)
                                [] OTHER -> date
                         ELSE date)
        \* let mut date = now + dur
        Add(number, dtype, dur) ==
            IF ~dur.some THEN RPanic
            ELSE CleanUp(number, dtype, AddScaled(now, dur.v, number))
        \* if number > 10000000.0 { bail! }
        Scale(number, dtype) ==
            IF ~number.half /\ number.n > MaxNumber THEN RErr
            ELSE Add(number, dtype, get_duration_from_string(dtype))
        Captured(capt) ==
            IF ~capt.matched THEN RNone ELSE Scale(CountOf(capt.g1), capt.g2)
    IN  Captured(relative_time_regex(input))

\* fn parse_special_words: ^(tomorrow|day after tomorrow)
parse_special_words(input, now) ==
    LET Word(w) ==
            CASE w = "tomorrow" -> ROk(AddDays(now, 1))
              [] w = "day after tomorrow" -> ROk(AddDays(now, 2))
              [] OTHER -> RNone
    IN  Word(FirstAlt(input, 1, <<"tomorrow", "day after tomorrow">>))

\* ((mon|tues?|wed|thu?r?s?|fri|sat?|sun?)(day)?) at position q: the text of
\* group 2 ("" when it does not match there).
DayNameAt(s, q) ==
    LET opt(k, c) == IF StartsAt(s, k, c) THEN Len(c) ELSE 0
        ThS(b) == b + opt(q + b, "s")
        ThR(a) == ThS(a + opt(q + a, "r"))
        Name(stem) ==
            IF stem = 0 THEN "" ELSE SubSeq(s, q, q + stem + opt(q + stem, "day") - 1)
    IN  Name(IF StartsAt(s, q, "mon") THEN 3
             ELSE IF StartsAt(s, q, "tue") THEN 3 + opt(q + 3, "s")
             ELSE IF StartsAt(s, q, "wed") THEN 3
             ELSE IF StartsAt(s, q, "th") THEN ThR(2 + opt(q + 2, "u"))
             ELSE IF StartsAt(s, q, "fri") THEN 3
             ELSE IF StartsAt(s, q, "sa") THEN 2 + opt(q + 2, "t")
             ELSE IF StartsAt(s, q, "su") THEN 2 + opt(q + 2, "n")
             ELSE 0)

\* on_regex, unanchored: group 2 of the leftmost match.  The optional (on\s+)
\* prefix never changes which weekday text is the leftmost one.
on_regex(input) ==
    LET Leftmost(hits) ==
            IF hits = {} THEN NoMatch
            ELSE [matched |-> TRUE, g2 |-> DayNameAt(input, MinOf(hits))]
    IN  Leftmost({q \in 1..Len(input) : DayNameAt(input, q) # ""})

\* chrono's <Weekday as FromStr>::from_str: days from Monday, -1 for an Err.
WeekdayFromStr(w) ==
    CASE w \in {"mon", "monday"} -> 0
      [] w \in {"tue", "tuesday"} -> 1
      [] w \in {"wed", "wednesday"} -> 2
      [] w \in {"thu", "thursday"} -> 3
      [] w \in {"fri", "friday"} -> 4
      [] w \in {"sat", "saturday"} -> 5
      [] w \in {"sun", "sunday"} -> 6
      [] OTHER -> 0 - 1

\* fn parse_on_day_clause
parse_on_day_clause(input, now) ==
    LET \* if date < now { date = date + Duration::weeks(1) }
        Forward(date) == IF DtLt(date, now) THEN AddDays(date, 7) ELSE date
        OnDay(weekday) ==
            IF weekday < 0 THEN RErr
            ELSE ROk(set_to_morning(
                     Forward(AddDays(AddDays(now, 0 - num_days_from_monday(now)), weekday))))
        Captured(capt) == IF ~capt.matched THEN RNone ELSE OnDay(WeekdayFromStr(capt.g2))
    IN  Captured(on_regex(input))

\* (\d\d\d\d)-(\d\d)-(\d\d) at position q
DatePatAt(s, q) ==
    /\ \A k \in {0, 1, 2, 3, 5, 6, 8, 9} : IsDigit(Ch(s, q + k))
    /\ Ch(s, q + 4) = "-"
    /\ Ch(s, q + 7) = "-"

\* full_date_regex, unanchored: groups 2..4 of the leftmost match.  The optional
\* (on\s+) prefix never changes which date text is the leftmost one.
full_date_regex(input) ==
    LET At(q) ==
            [matched |-> TRUE,
             g2 |-> SubSeq(input, q, q + 3),
             g3 |-> SubSeq(input, q + 5, q + 6),
             g4 |-> SubSeq(input, q + 8, q + 9)]
        Leftmost(hits) == IF hits = {} THEN NoMatch ELSE At(MinOf(hits))
    IN  Leftmost({q \in 1..Len(input) : DatePatAt(input, q)})

\* fn parse_on_date_clause
parse_on_date_clause(input, now) ==
    LET Day(d3) == IF ~d3.some THEN RErr ELSE ROk(set_to_morning(d3.v))
        Month(d2, day) == IF ~d2.some THEN RErr ELSE Day(with_day(d2.v, day))
        Year(d1, month, day) ==
            IF ~d1.some THEN RErr ELSE Month(with_month(d1.v, month), day)
        Captured(capt) ==
            IF ~capt.matched THEN RNone
            ELSE Year(with_year(now, NumVal(capt.g2)), NumVal(capt.g3), NumVal(capt.g4))
    IN  Captured(full_date_regex(input))

\* at ((\d\d?):?(\d\d)) at position p: groups 2 and 3.  The greedy choices are
\* tried in the regex's order: two-digit hour before one-digit, colon before none.
AtTimeAt(s, p) ==
    LET Min(hl, colon) == p + 3 + hl + (IF colon THEN 1 ELSE 0)
        try(hl, colon) ==
            /\ StartsAt(s, p, "at ")
            /\ \A k \in 0..(hl - 1) : IsDigit(Ch(s, p + 3 + k))
            /\ colon => Ch(s, p + 3 + hl) = ":"
            /\ IsDigit(Ch(s, Min(hl, colon))) /\ IsDigit(Ch(s, Min(hl, colon) + 1))
        cap(hl, colon) ==
            [matched |-> TRUE,
             g2 |-> SubSeq(s, p + 3, p + 2 + hl),
             g3 |-> SubSeq(s, Min(hl, colon), Min(hl, colon) + 1)]
        First(hc) == IF hc = <<>> THEN NoMatch ELSE cap(hc[1], hc[2])
    IN  First(IF try(2, TRUE) THEN <<2, TRUE>>
              ELSE IF try(2, FALSE) THEN <<2, FALSE>>
              ELSE IF try(1, TRUE) THEN <<1, TRUE>>
              ELSE IF try(1, FALSE) THEN <<1, FALSE>>
              ELSE <<>>)

\* at_time_regex, unanchored: the leftmost match
at_time_regex(input) ==
    LET Leftmost(hits) == IF hits = {} THEN NoMatch ELSE AtTimeAt(input, MinOf(hits))
    IN  Leftmost({p \in 1..Len(input) : AtTimeAt(input, p).matched})

\* at (\d+)\s*(am|pm) at position p: groups 1 and 2
AtPmAt(s, p) ==
    LET AmPm(e, w) ==
            IF w = "" THEN NoMatch
            ELSE [matched |-> TRUE, g1 |-> SubSeq(s, p + 3, e - 1), g2 |-> w]
        Digits(e) == AmPm(e, FirstAlt(s, SkipSpaces(s, e), <<"am", "pm">>))
    IN  IF ~(StartsAt(s, p, "at ") /\ IsDigit(Ch(s, p + 3))) THEN NoMatch
        ELSE Digits(SkipDigits(s, p + 3))

\* at_pm_regex, unanchored: the leftmost match
at_pm_regex(input) ==
    LET Leftmost(hits) == IF hits = {} THEN NoMatch ELSE AtPmAt(input, MinOf(hits))
    IN  Leftmost({p \in 1..Len(input) : AtPmAt(input, p).matched})

\* parse_at_clause without date.with_second(0)
parse_at_clause_keep_seconds(input, now, date) ==
    LET Hour(h, minutes) == IF ~h.some THEN None ELSE with_minute(h.v, minutes)
        AmPm(p) == IF ~p.matched THEN Some(date)
                   ELSE IF p.g2 = "pm" THEN with_hour(date, NumVal(p.g1) + 12)
                   ELSE with_hour(date, NumVal(p.g1))
        Time(t) == IF t.matched THEN Hour(with_hour(date, NumVal(t.g2)), NumVal(t.g3))
                   ELSE AmPm(at_pm_regex(input))
        End(set) == IF ~set.some THEN RErr
                    ELSE IF DtLt(set.v, now) THEN ROk(AddDays(set.v, 1)) ELSE ROk(set.v)
    IN  End(Time(at_time_regex(input)))

\* parse_at_clause without its last step, the day added to an instant before now
parse_at_clause_no_roll(input, now, date) ==
    LET Minute(mi) == IF ~mi.some THEN None ELSE with_second(mi.v, 0)
        Hour(h, minutes) == IF ~h.some THEN None ELSE Minute(with_minute(h.v, minutes))
        AmPm(p) ==
            IF ~p.matched THEN Some(date)
            ELSE IF p.g2 = "pm" THEN with_hour(date, NumVal(p.g1) + 12)
            ELSE with_hour(date, NumVal(p.g1))
        Time(t) ==
            IF t.matched THEN Hour(with_hour(date, NumVal(t.g2)), NumVal(t.g3))
            ELSE AmPm(at_pm_regex(input))
        End(set) == IF ~set.some THEN RErr ELSE ROk(set.v)
    IN  End(Time(at_time_regex(input)))

\* fn parse_at_clause
parse_at_clause(input, now, date) ==
    LET Minute(mi) == IF ~mi.some THEN None ELSE with_second(mi.v, 0)
        Hour(h, minutes) == IF ~h.some THEN None ELSE Minute(with_minute(h.v, minutes))
        AmPm(p) ==
            IF ~p.matched THEN Some(date)
            ELSE IF p.g2 = "pm" THEN with_hour(date, NumVal(p.g1) + 12)
            ELSE with_hour(date, NumVal(p.g1))
        Time(t) ==
            IF t.matched THEN Hour(with_hour(date, NumVal(t.g2)), NumVal(t.g3))
            ELSE AmPm(at_pm_regex(input))
        \* if date < now { date = date + Duration::days(1) }
        End(set) ==
            IF ~set.some THEN RErr
            ELSE IF DtLt(set.v, now) THEN ROk(AddDays(set.v, 1))
            ELSE ROk(set.v)
    IN  End(Time(at_time_regex(input)))

\* The if-let chain of parse_human_datetime: the first clause that matches
\* gives the base date (or its error); with no match the parse fails.
base_date(input, now) ==
    LET First(c1, c2, c3, c4) ==
            IF c1.tag # "none" THEN [clause |-> "in", res |-> c1]
            ELSE IF c2.tag # "none" THEN [clause |-> "special", res |-> c2]
            ELSE IF c3.tag # "none" THEN [clause |-> "day", res |-> c3]
            ELSE IF c4.tag # "none" THEN [clause |-> "date", res |-> c4]
            ELSE [clause |-> "none", res |-> RErr]
    IN  First(parse_in_clause(input, now), parse_special_words(input, now),
              parse_on_day_clause(input, now), parse_on_date_clause(input, now))

\* fn parse_human_datetime
parse_human_datetime(raw, now) ==
    LET At(input, base) ==
            IF base.tag # "ok" THEN base ELSE parse_at_clause(input, now, base.date)
        Parse(input) ==
            IF input = "next week"
            THEN ROk(set_to_morning(AddDays(now, 7 - number_from_monday(now) + 1)))
            ELSE IF input = "tomorrow" THEN ROk(set_to_morning(AddDays(now, 1)))
            ELSE IF input = "day after tomorrow" THEN ROk(set_to_morning(AddDays(now, 2)))
            ELSE At(input, base_date(input, now).res)
    IN  Parse(to_lowercase(trim(raw)))

(***************************************************************************)
(* Bounds and the finite universes the inputs are drawn from.              *)
(***************************************************************************)

\* Sync attempts (calls of do_sync that reach the request) explored.
MaxAttempts == 3

\* Ticks of the reminder ticker explored.
MaxTicks == 3

\* Operations of the store explored when it is driven directly.
MaxStoreOps == 4

NoToken == "none"

\* next_batch tokens the server hands out
Tokens == {"s1", "s2"}

\* The ids the random generator can produce (a small space, so that it can repeat).
Ids == {"id1", "id2"}

Alice == "@alice:example.org"
Bob == "@bob:example.org"

\* The address_book table: Bob has no entry.
AddressBook == [u \in {Alice} |-> "+15550001"]

\* The instant the process starts at: 2014-07-08T09:10:11.5Z, a Tuesday.
StartClock == DT(DaysFromCivil(2014, 7, 8), 9 * 3600 + 10 * 60 + 11, Subs - 1)

Msg(sender, body) ==
    [etype |-> "m.room.message", sender |-> sender, has_body |-> TRUE, body |-> body]

EvRemind == Msg(Alice, "testbot: remind me in 1 hour to water plants")
EvSoon == Msg(Bob, "testbot: remind me in 1 s to go to bed")
EvZero == Msg(Alice, "testbot:  remindme in 0 seconds  to  blink")
EvPast == Msg(Alice, "testbot: remind me on 2014-01-01 to celebrate")
EvBad == Msg(Bob, "testbot: remind me whenever to relax")
EvUnrec == Msg(Alice, "testbot: hello")
EvChat == Msg(Bob, "hello there")
EvState == [etype |-> "m.room.member", sender |-> Alice, has_body |-> FALSE, body |-> ""]
EvNoBody == [etype |-> "m.room.message", sender |-> Alice, has_body |-> FALSE, body |-> ""]

\* rooms.join of a response: the joined rooms in key order, each with its timeline.
Room(id, evs) == [room_id |-> id, events |-> evs]

Resp(token, join) == [next_batch |-> token, join |-> join]

\* The parsed bodies the server can answer a sync with.
Responses ==
    { Resp("s1", <<Room("!a", <<EvRemind, EvState>>)>>),
      Resp("s2", <<Room("!a", <<EvSoon, EvChat>>), Room("!b", <<EvZero>>)>>),
      Resp("s2", <<Room("!b", <<EvBad, EvNoBody, EvPast, EvUnrec>>)>>) }

(***************************************************************************)
(* State.                                                                  *)
(***************************************************************************)

VARIABLES
    state,       \* SyncState: errored, is_live, next_batch
    pc,          \* where the sync loop stands: init, sleep, request, body, done, bounded
    attempts,    \* sync requests issued so far
    stop,        \* the value of the stop flag
    stream,      \* the items the sync stream has yielded, oldest first
    requests,    \* the sync requests issued, oldest first
    handled,     \* the events passed to handle_event, oldest first
    rows,        \* the reminders table
    spawned,     \* the tasks spawned on the event loop, oldest first
    clock,       \* Utc::now()
    ticks,       \* ticks of the reminder ticker so far
    proc,        \* the process: running, exited, crashed
    ops,         \* store operations performed when the store is driven directly
    last,        \* the last two such operations, newest first
    inner,       \* FlagInner of a flag studied on its own
    handle,      \* the Flag handles of that flag
    notified,    \* the tasks its set has notified
    wraps,       \* the operations wrapped with that flag, by the handle of their clone
    finished,    \* the spawned tasks that ran to completion, by their place in spawned
    p_input,     \* the phrase given to the parser
    p_now,       \* the instant given to the parser
    p_result     \* what the parser returned

sync_vars == <<state, pc, attempts, stop, stream, requests, handled>>
loop_vars == <<spawned, clock, ticks, proc>>
store_vars == <<ops, last>>
flag_vars == <<inner, handle, notified, wraps>>
parse_vars == <<p_input, p_now, p_result>>
task_vars == <<finished>>
vars == <<sync_vars, rows, loop_vars, store_vars, flag_vars, parse_vars, task_vars>>

(***************************************************************************)
(* The reminders table (reminders.rs).                                     *)
(***************************************************************************)

\* add_reminder binding destination and text to each other's columns
add_reminder_swapped(rws, reminder, db_ok) ==
    IF ~db_ok \/ \E r \in rws : r.id = reminder.id
    THEN [ok |-> FALSE, rows |-> rws]
    ELSE [ok |-> TRUE,
          rows |-> rws \cup {[id |-> reminder.id,
                              due_ts |-> timestamp(reminder.due),
                              destination |-> reminder.text,
                              text |-> reminder.destination,
                              sent |-> FALSE]}]

\* Reminders::add_reminder: the INSERT fails on a primary-key collision, and
\* whenever the database fails (db_ok = FALSE).
add_reminder(rws, reminder, db_ok) ==
    IF ~db_ok \/ \E r \in rws : r.id = reminder.id
    THEN [ok |-> FALSE, rows |-> rws]
    ELSE [ok |-> TRUE,
          rows |-> rws \cup {[id |-> reminder.id,
                              due_ts |-> timestamp(reminder.due),
                              destination |-> reminder.destination,
                              text |-> reminder.text,
                              sent |-> FALSE]}]

\* get_reminders_before with WHERE due_ts < ? AND NOT sent
get_reminders_before_strict(rws, now) ==
    {r \in rws : TsLe(r.due_ts, timestamp(now)) /\ r.due_ts # timestamp(now) /\ ~r.sent}

\* get_reminders_before without the due_ts test
get_reminders_before_unsent(rws, now) ==
    {r \in rws : ~r.sent}

\* Reminders::get_reminders_before: WHERE due_ts <= ? AND NOT sent
get_reminders_before(rws, now) ==
    {r \in rws : TsLe(r.due_ts, timestamp(now)) /\ ~r.sent}

\* delete_reminder whose UPDATE matches no row
delete_reminder_noop(rws, id, db_ok) ==
    IF ~db_ok THEN [ok |-> FALSE, rows |-> rws] ELSE [ok |-> TRUE, rows |-> rws]

\* delete_reminder with SET sent = NOT sent
delete_reminder_toggle(rws, id, db_ok) ==
    IF ~db_ok THEN [ok |-> FALSE, rows |-> rws]
    ELSE [ok |-> TRUE,
          rows |-> {IF r.id = id THEN [r EXCEPT !.sent = ~@] ELSE r : r \in rws}]

\* delete_reminder with DELETE FROM reminders WHERE id = ?
delete_reminder_remove(rws, id, db_ok) ==
    IF ~db_ok THEN [ok |-> FALSE, rows |-> rws]
    ELSE [ok |-> TRUE, rows |-> {r \in rws : r.id # id}]

\* Reminders::delete_reminder: UPDATE reminders SET sent = true WHERE id = ?
\* An update that matches no row is no error; a failing database is.
delete_reminder(rws, id, db_ok) ==
    IF ~db_ok THEN [ok |-> FALSE, rows |-> rws]
    ELSE [ok |-> TRUE,
          rows |-> {IF r.id = id THEN [r EXCEPT !.sent = TRUE] ELSE r : r \in rws}]

(***************************************************************************)
(* The event handler (event_handler.rs).                                   *)
(***************************************************************************)

\* The (.*)\s+to\s+(.*)$ tail of reminder_regex from position n on: the greedy
\* first group ends at the last place where whitespace, "to", whitespace follow.
SplitAt(s, k) ==
    LET e == SkipSpaces(s, k)
    IN  IsSpace(Ch(s, k)) /\ StartsAt(s, e, "to") /\ IsSpace(Ch(s, e + 2))

MaxOf(S) == CHOOSE n \in S : \A k \in S : n >= k

WhenWhat(s, n) ==
    LET Split(k) ==
            [matched |-> TRUE,
             g1 |-> IF k > n THEN SubSeq(s, n, k - 1) ELSE "",
             g2 |-> From(s, SkipSpaces(s, SkipSpaces(s, k) + 2))]
        Last(hits) == IF hits = {} THEN NoMatch ELSE Split(MaxOf(hits))
    IN  Last({k \in n..Len(s) : SplitAt(s, k)})

\* ^testbot:\s+remind\s*me\s+(.*)\s+to\s+(.*)$ : the groups `when` and `what`.
\* The \s+ before the first group is greedy and gives whitespace back only
\* when nothing else matches.
reminder_regex(body) ==
    LET When(starts) == IF starts = {} THEN NoMatch ELSE WhenWhat(body, MaxOf(starts))
        Me(b, c) ==
            IF c > b + 2 THEN When({n \in (b + 3)..c : WhenWhat(body, n).matched})
            ELSE NoMatch
        Remind(a, b) ==
            IF StartsAt(body, a, "remind") /\ StartsAt(body, b, "me")
            THEN Me(b, SkipSpaces(body, b + 2))
            ELSE NoMatch
        Bot(a) ==
            IF StartsAt(body, 1, "testbot:") /\ a > 9
            THEN Remind(a, SkipSpaces(body, a + 6))
            ELSE NoMatch
    IN  Bot(SkipSpaces(body, 9))

Reply(room_id, msg, arg) == [kind |-> "reply", room |-> room_id, msg |-> msg, arg |-> arg]

\* read_event queuing a reminder due now for a phrase that fails to parse
read_event_lenient(room_id, event, now) ==
    LET quiet == [act |-> "quiet"]
        Due(at, text, due) ==
            IF due.tag = "panic" THEN [act |-> "panic"]
            ELSE IF due.tag = "err"
            THEN [act |-> "add", due |-> now, text |-> text,
                  destination |-> event.sender,
                  reply |-> Reply(room_id, "queued", timestamp(now))]
            ELSE IF DtLt(due.date, now)
            THEN [act |-> "reply", reply |-> Reply(room_id, "past", timestamp(due.date))]
            ELSE [act |-> "add", due |-> due.date, text |-> text,
                  destination |-> event.sender,
                  reply |-> Reply(room_id, "queued", timestamp(due.date))]
        Captured(capt) ==
            IF ~capt.matched THEN quiet
            ELSE Due(capt.g1, capt.g2, parse_human_datetime(capt.g1, now))
    IN  IF event.etype # "m.room.message" THEN quiet
        ELSE IF ~event.has_body THEN quiet
        ELSE IF ~StartsAt(event.body, 1, "testbot:") THEN quiet
        ELSE Captured(reminder_regex(event.body))

\* EventHandler::handle_event up to the insert: what the handler makes of the
\* event at the instant now, which depends neither on the id drawn nor on the
\* table.  "add" carries the reminder to insert, "reply" the message to post.
read_event(room_id, event, now) ==
    LET quiet == [act |-> "quiet"]
        Due(at, text, due) ==
            IF due.tag = "panic" THEN [act |-> "panic"]
            ELSE IF due.tag = "err"
            THEN [act |-> "reply", reply |-> Reply(room_id, "parse_error", at)]
            ELSE IF DtLt(due.date, now)
            THEN [act |-> "reply", reply |-> Reply(room_id, "past", timestamp(due.date))]
            ELSE [act |-> "add", due |-> due.date, text |-> text,
                  destination |-> event.sender,
                  reply |-> Reply(room_id, "queued", timestamp(due.date))]
        Captured(capt) ==
            IF ~capt.matched THEN quiet
            ELSE Due(capt.g1, capt.g2, parse_human_datetime(capt.g1, now))
    IN  IF event.etype # "m.room.message" THEN quiet
        ELSE IF ~event.has_body THEN quiet
        ELSE IF ~StartsAt(event.body, 1, "testbot:") THEN quiet
        ELSE Captured(reminder_regex(event.body))

\* The rest of handle_event, with the drawn id and the database's mood: the
\* table afterwards, the reply future it returns (if it posts one) and whether
\* it panicked.
finish_event(room_id, read, id, db_ok, rws) ==
    LET quiet == [rows |-> rws, reply |-> <<>>, panic |-> FALSE]
        Added(res) ==
            IF ~res.ok
            THEN [quiet EXCEPT !.reply = <<Reply(room_id, "persist_error", id)>>]
            ELSE [rows |-> res.rows, reply |-> <<read.reply>>, panic |-> FALSE]
    IN  CASE read.act = "quiet" -> quiet
          [] read.act = "panic" -> [quiet EXCEPT !.panic = TRUE]
          [] read.act = "reply" -> [quiet EXCEPT !.reply = <<read.reply>>]
          [] read.act = "add" ->
                Added(add_reminder(rws, [id |-> id, due |-> read.due, text |-> read.text,
                                         destination |-> read.destination], db_ok))

\* EventHandler::handle_event
handle_event(room_id, event, id, db_ok, now, rws) ==
    finish_event(room_id, read_event(room_id, event, now), id, db_ok, rws)

\* SyncResponse::events: the (room_id, event) pairs, rooms in key order, each
\* timeline in order.
RECURSIVE events(_)
events(join) ==
    IF join = <<>> THEN <<>>
    ELSE [i \in 1..Len(join[1].events) |-> [room_id |-> join[1].room_id, event |-> join[1].events[i]]]
         \o events(Tail(join))

\* The record of one call of handle_event: the stream item the event came
\* with, the event, the instant, and what the call did (the rows it inserted,
\* the reply it posted).
Handled(item, room_id, event, now, rws, r) ==
    [item |-> item, room_id |-> room_id, event |-> event, now |-> now,
     inserted |-> r.rows \ rws, replies |-> r.reply]

\* read_event of every event of a snapshot, all at the instant now
ReadAll(evs, now) == [i \in 1..Len(evs) |-> read_event(evs[i].room_id, evs[i].event, now)]

\* The for loop of start_from_sync over the events of one live snapshot, from
\* the i-th event on: every event is handled in turn with its own id draw; the
\* database fails for the db_fail-th event (0: for none); a panic ends the loop
\* and the process.  reads[i] is read_event of the i-th event.
RECURSIVE HandleFrom(_, _, _, _, _, _)
HandleFrom(evs, reads, i, ids, db_fail, acc) ==
    LET After(r) ==
            [rows |-> r.rows,
             spawned |-> acc.spawned \o r.reply,
             handled |-> Append(acc.handled,
                                Handled(acc.item, evs[i].room_id, evs[i].event,
                                        acc.clock, acc.rows, r)),
             clock |-> acc.clock,
             item |-> acc.item,
             panic |-> r.panic]
    IN  IF i > Len(evs) \/ acc.panic THEN acc
        ELSE HandleFrom(evs, reads, i + 1, ids, db_fail,
                        After(finish_event(evs[i].room_id, reads[i], ids[i], i # db_fail,
                                           acc.rows)))

(***************************************************************************)
(* The sync loop (matrix/mod.rs) feeding the event handler.                *)
(***************************************************************************)

\* create_request always building the URL of an initial sync
create_request_initial(st) == [since |-> NoToken, timeout |-> 0]

\* Syncer::create_request: the token and the timeout go into the URL together.
create_request(st) ==
    IF st.next_batch # NoToken
    THEN [since |-> st.next_batch, timeout |-> 60000]
    ELSE [since |-> NoToken, timeout |-> 0]

Cancelled == [kind |-> "cancelled"]
Errored == [kind |-> "error"]

\* snapshot reading is_live after the state was advanced
snapshot_late(st, resp) ==
    [kind |-> "snapshot", is_live |-> TRUE, sync_response |-> resp]

\* do_sync's map closure: the SyncStreamItem of a parsed response, with is_live
\* as the state holds it when the response arrives.
snapshot(st, resp) ==
    [kind |-> "snapshot", is_live |-> st.is_live, sync_response |-> resp]

\* do_sync's then closure on success: errored cleared, next_batch and is_live advanced.
advance(st, resp) ==
    [errored |-> FALSE, is_live |-> TRUE, next_batch |-> resp.next_batch]

\* fail leaving errored as it was
fail_keep(st) == st

\* fail resetting the token along with setting errored
fail_reset(st) == [st EXCEPT !.errored = TRUE, !.next_batch = NoToken]

\* do_sync's then closure on an error, StopError included.
fail(st) == [st EXCEPT !.errored = TRUE]

\* live_events handing over the newest event first
live_events_newest_first(item) ==
    IF item.is_live
    THEN [i \in 1..Len(events(item.sync_response.join)) |->
             events(item.sync_response.join)[Len(events(item.sync_response.join)) + 1 - i]]
    ELSE <<>>

\* live_events without the is_live test
live_events_all(item) == events(item.sync_response.join)

\* start_from_sync: the events of an item that are handed to handle_event.
live_events(item) == IF item.is_live THEN events(item.sync_response.join) ELSE <<>>

\* The call of do_sync and the first poll of the future it returns, given the
\* loop's state so far.  The flag is polled before the sleep and before the
\* request: if it is set the iteration ends with StopError, take_while ends
\* the stream and the main future returns.  Otherwise the sleep starts when
\* the previous attempt failed, and the request goes out when it did not.
BeginSync(st, strm, reqs, att) ==
    IF stop
    THEN [state |-> fail(st), pc |-> "done", attempts |-> att,
          stream |-> Append(strm, Cancelled), requests |-> reqs, proc |-> "exited"]
    ELSE IF att >= MaxAttempts
    THEN [state |-> st, pc |-> "bounded", attempts |-> att,
          stream |-> strm, requests |-> reqs, proc |-> "running"]
    ELSE IF st.errored
    THEN [state |-> st, pc |-> "sleep", attempts |-> att,
          stream |-> strm, requests |-> reqs, proc |-> "running"]
    ELSE [state |-> st, pc |-> "request", attempts |-> att + 1, stream |-> strm,
          requests |-> Append(reqs, [req |-> create_request(st), slept |-> FALSE]),
          proc |-> "running"]

Become(b) ==
    /\ state' = b.state
    /\ pc' = b.pc
    /\ attempts' = b.attempts
    /\ stream' = b.stream
    /\ requests' = b.requests
    /\ proc' = b.proc

\* core.run polls start_from_sync for the first time.
Run ==
    /\ pc = "init" /\ proc = "running"
    /\ Become(BeginSync(state, stream, requests, attempts))
    /\ UNCHANGED <<stop, handled, rows, spawned, clock, ticks>>
    /\ UNCHANGED <<store_vars, flag_vars, parse_vars, task_vars>>

\* The 5 second backoff sleep elapses with the flag unset: the request goes out.
SleepDone ==
    /\ pc = "sleep" /\ proc = "running" /\ ~stop
    /\ pc' = "request"
    /\ attempts' = attempts + 1
    /\ requests' = Append(requests, [req |-> create_request(state), slept |-> TRUE])
    /\ UNCHANGED <<state, stop, stream, handled, rows, loop_vars>>
    /\ UNCHANGED <<store_vars, flag_vars, parse_vars, task_vars>>

\* The flag wins the race against the sleep or against the request.
Cancel ==
    /\ pc \in {"sleep", "request"} /\ proc = "running" /\ stop
    /\ state' = fail(state)
    /\ stream' = Append(stream, Cancelled)
    /\ pc' = "done"
    /\ proc' = "exited"
    /\ UNCHANGED <<attempts, stop, requests, handled, rows, spawned, clock, ticks>>
    /\ UNCHANGED <<store_vars, flag_vars, parse_vars, task_vars>>

\* FailAttempt ending the stream with the error
FailAttempt_ends ==
    /\ state' = fail(state)
    /\ stream' = Append(stream, Errored)
    /\ pc' = "done"
    /\ proc' = "exited"
    /\ UNCHANGED <<attempts, stop, requests, handled, rows, spawned, clock, ticks>>
    /\ UNCHANGED <<store_vars, flag_vars, parse_vars, task_vars>>

\* An attempt ends with an error that is not StopError: errored is set, the
\* stream yields the error and goes on to the next do_sync.
FailAttempt ==
    /\ Become(BeginSync(fail(state), Append(stream, Errored),
                        requests, attempts))
    /\ UNCHANGED <<stop, handled, rows, spawned, clock, ticks>>
    /\ UNCHANGED <<store_vars, flag_vars, parse_vars, task_vars>>

\* The request fails in transport, or is answered with a non-2xx status.
RequestFail ==
    /\ pc = "request" /\ proc = "running" /\ ~stop
    /\ FailAttempt

\* The request is answered with a 2xx status: the body is read next.
RequestOk ==
    /\ pc = "request" /\ proc = "running" /\ ~stop
    /\ pc' = "body"
    /\ UNCHANGED <<state, attempts, stop, stream, requests, handled, rows, loop_vars>>
    /\ UNCHANGED <<store_vars, flag_vars, parse_vars, task_vars>>

\* Reading the body fails, or the body does not parse.  The flag is not
\* consulted here: only the sleep and the request are wrapped with it.
BodyFail ==
    /\ pc = "body" /\ proc = "running"
    /\ FailAttempt

\* The body arrives and parses to resp.  The snapshot carries is_live as it
\* was before this response; then next_batch and is_live advance, the
\* snapshot is yielded, start_from_sync handles its events if it is live, and
\* the stream goes on to the next do_sync.
BodyOk(resp, reads, ids, db_fail) ==
    /\ pc = "body" /\ proc = "running"
    /\ \E item \in {snapshot(state, resp)}, st1 \in {advance(state, resp)} :
         \E strm \in {Append(stream, item)}, evs \in {live_events(item)} :
           /\ DOMAIN ids = 1..Len(evs) /\ db_fail \in 0..Len(evs)
           /\ \E h \in {HandleFrom(evs, reads, 1, ids, db_fail,
                                   [rows |-> rows, spawned |-> spawned, handled |-> handled,
                                    item |-> Len(strm), clock |-> clock, panic |-> FALSE])} :
                /\ rows' = h.rows
                /\ spawned' = h.spawned
                /\ handled' = h.handled
                /\ IF h.panic
                   THEN /\ state' = st1 /\ stream' = strm /\ proc' = "crashed"
                        /\ UNCHANGED <<pc, attempts, requests>>
                   ELSE Become(BeginSync(st1, strm, requests, attempts))
    /\ UNCHANGED <<stop, clock, ticks>>
    /\ UNCHANGED <<store_vars, flag_vars, parse_vars, task_vars>>

\* BodyOk for every body the server can send, every draw of ids and every
\* database failure.
ReceiveBody ==
    /\ pc = "body" /\ proc = "running"
    /\ \E resp \in Responses :
         \E evs \in {live_events(snapshot(state, resp))} :
           \E reads \in {ReadAll(evs, clock)} :
             \E ids \in [1..Len(evs) -> Ids], db_fail \in 0..Len(evs) :
               BodyOk(resp, reads, ids, db_fail)

\* The interrupt handler: stop_flag.set()
SetFlag ==
    /\ proc = "running" /\ pc # "init"
    /\ stop' = TRUE
    /\ UNCHANGED <<state, pc, attempts, stream, requests, handled, rows, loop_vars>>
    /\ UNCHANGED <<store_vars, flag_vars, parse_vars, task_vars>>

(***************************************************************************)
(* The reminder dispatcher (reminder_handler.rs) and the spawned tasks.    *)
(***************************************************************************)

\* ReminderHandler::handle_reminder: the future it returns.  Without an
\* address-book entry, or when the lookup fails, nothing is sent.
handle_reminder(reminder, lookup_ok) ==
    IF lookup_ok /\ reminder.destination \in DOMAIN AddressBook
    THEN [kind |-> "sms", id |-> reminder.id, to |-> AddressBook[reminder.destination],
          body |-> reminder.text]
    ELSE [kind |-> "drop", id |-> reminder.id]

\* The orders a query can return a set of rows in.
Orders(S) == {f \in [1..Cardinality(S) -> S] : \A i, j \in DOMAIN f : f[i] = f[j] => i = j}

\* The for loop of do_reminders over the rows in the order returned: each
\* reminder's task is spawned and the reminder is marked sent; when the
\* update of the fail_at-th reminder fails the loop panics after its spawn.
RECURSIVE RemindFrom(_, _, _, _, _)
RemindFrom(order, i, fail_at, ab_fail, acc) ==
    IF i > Len(order) THEN acc
    ELSE LET sp  == Append(acc.spawned, handle_reminder(order[i], order[i].id \notin ab_fail))
             del == delete_reminder(acc.rows, order[i].id, i # fail_at)
         IN  IF ~del.ok THEN [rows |-> del.rows, spawned |-> sp, panic |-> TRUE]
             ELSE RemindFrom(order, i + 1, fail_at, ab_fail,
                             [rows |-> del.rows, spawned |-> sp, panic |-> FALSE])

\* Time passes.
Step(dt, delta) ==
    LET f == dt.sub + delta.subs
        s == dt.sec + delta.secs + f \div Subs
    IN  DT(dt.day + s \div DaySecs, s % DaySecs, f % Subs)

ClockSteps == {[secs |-> 0, subs |-> 1], [secs |-> 3600, subs |-> 0]}

\* Tick leaving unsent the reminders whose originator has no address-book entry
Tick_retry_unknown(delta, query_ok, order, fail_at, ab_fail) ==
    /\ proc = "running" /\ ticks < MaxTicks
    /\ ticks' = ticks + 1
    /\ clock' = Step(clock, delta)
    /\ IF ~query_ok
       THEN proc' = "crashed" /\ UNCHANGED <<rows, spawned>>
       ELSE /\ order \in Orders(get_reminders_before(rows, clock'))
            /\ fail_at \in 0..Len(order)
            /\ LET r == RemindFrom(order, 1, fail_at, ab_fail,
                                   [rows |-> rows, spawned |-> spawned, panic |-> FALSE])
               IN  /\ rows' = {x \in r.rows : x.destination \in DOMAIN AddressBook}
                                 \cup {x \in rows : x.destination \notin DOMAIN AddressBook}
                   /\ spawned' = r.spawned
                   /\ proc' = IF r.panic THEN "crashed" ELSE "running"
    /\ UNCHANGED sync_vars
    /\ UNCHANGED <<store_vars, flag_vars, parse_vars, task_vars>>

\* The ticker fires, delta after the previous handler: ReminderHandler::do_reminders.
\* A failing query (query_ok = FALSE) or update panics.
Tick(delta, query_ok, order, fail_at, ab_fail) ==
    /\ proc = "running" /\ ticks < MaxTicks
    /\ ticks' = ticks + 1
    /\ clock' = Step(clock, delta)
    /\ IF ~query_ok
       THEN proc' = "crashed" /\ UNCHANGED <<rows, spawned>>
       ELSE /\ order \in Orders(get_reminders_before(rows, clock'))
            /\ fail_at \in 0..Len(order)
            /\ LET r == RemindFrom(order, 1, fail_at, ab_fail,
                                   [rows |-> rows, spawned |-> spawned, panic |-> FALSE])
               IN  /\ rows' = r.rows
                   /\ spawned' = r.spawned
                   /\ proc' = IF r.panic THEN "crashed" ELSE "running"
    /\ UNCHANGED sync_vars
    /\ UNCHANGED <<store_vars, flag_vars, parse_vars, task_vars>>

\* Events handed to the event handler when it is driven next to the ticker.
MaxEvents == 2

\* The events handed to it then.
TickerEvents == {EvRemind, EvSoon, EvZero}

\* One event of a live snapshot reaches EventHandler::handle_event.
Event(room_id, event, id, db_ok) ==
    /\ proc = "running" /\ Len(handled) < MaxEvents
    /\ \E r \in {handle_event(room_id, event, id, db_ok, clock, rows)} :
          /\ rows' = r.rows
          /\ spawned' = spawned \o r.reply
          /\ proc' = IF r.panic THEN "crashed" ELSE "running"
          /\ handled' = Append(handled, Handled(0, room_id, event, clock, rows, r))
    /\ UNCHANGED <<state, pc, attempts, stop, stream, requests, clock, ticks>>
    /\ UNCHANGED <<store_vars, flag_vars, parse_vars, task_vars>>

(***************************************************************************)
(* The process as a whole.                                                 *)
(***************************************************************************)

\* Flag handles created when a flag is studied on its own.
MaxHandles == 3

\* The tasks that poll them.
Tasks == {"t1", "t2"}

Pending == [tag |-> "pending"]

InitSync ==
    /\ state = [errored |-> FALSE, is_live |-> FALSE, next_batch |-> NoToken]
    /\ pc = "init"
    /\ attempts = 0
    /\ stop = FALSE
    /\ stream = <<>>
    /\ requests = <<>>
    /\ handled = <<>>

InitLoop ==
    /\ rows = {}
    /\ spawned = <<>>
    /\ clock = StartClock
    /\ ticks = 0
    /\ proc = "running"
    /\ finished = {}

InitStore == ops = 0 /\ last = <<>>

\* Flag::new: one handle, never polled; FlagInner::default.
\* No operation is wrapped with the clone held by a handle.
NoWrap == [op |-> "none", before |-> FALSE, out |-> "none"]

InitFlag ==
    /\ inner = [value |-> FALSE, tasks |-> {}, available_ids |-> <<>>, next_id |-> 0]
    /\ handle = [h \in 1..MaxHandles |->
                    IF h = 1
                    THEN [status |-> "live", task_id |-> None, owner |-> "t1", parked |-> FALSE]
                    ELSE [status |-> "unused", task_id |-> None, owner |-> "t1", parked |-> FALSE]]
    /\ notified = {}
    /\ wraps = [h \in 1..MaxHandles |-> NoWrap]

InitParseIdle == p_input = "" /\ p_now = StartClock /\ p_result = Pending

Init == InitSync /\ InitLoop /\ InitStore /\ InitFlag /\ InitParseIdle

Next ==
    \/ Run
    \/ SleepDone
    \/ Cancel
    \/ RequestFail
    \/ RequestOk
    \/ BodyFail
    \/ ReceiveBody
    \/ SetFlag

Spec == Init /\ [][Next]_vars

\* The ticker next to the event handler, the sync loop left out.  The insert
\* meets no database failure here (Spec explores that), only repeated ids.
NextDispatch ==
    \/ \E delta \in ClockSteps, query_ok \in BOOLEAN :
         \E order \in Orders(get_reminders_before(rows, Step(clock, delta))) :
           \E fail_at \in 0..Len(order), ab_fail \in SUBSET {order[i].id : i \in 1..Len(order)} :
             Tick(delta, query_ok, order, fail_at, ab_fail)
    \/ \E event \in TickerEvents, id \in Ids : Event("!a", event, id, TRUE)

SpecDispatch == Init /\ [][NextDispatch]_vars

(***************************************************************************)
(* The reminders table driven directly through its three operations.       *)
(***************************************************************************)

\* The instants used as due times and as query times.
StoreTimes ==
    {StartClock, Step(StartClock, [secs |-> 0, subs |-> 1]),
     Step(StartClock, [secs |-> 1, subs |-> 0])}

\* The last two operations, newest first.
Logged(entry) == <<entry>> \o (IF last = <<>> THEN <<>> ELSE <<last[1]>>)

StoreAdd(reminder, db_ok) ==
    /\ ops < MaxStoreOps
    /\ LET res == add_reminder(rows, reminder, db_ok)
       IN  /\ rows' = res.rows
           /\ last' = Logged([op |-> "add", id |-> reminder.id, db_ok |-> db_ok,
                              pre |-> rows, ok |-> res.ok, ret |-> {}])
    /\ ops' = ops + 1
    /\ UNCHANGED <<sync_vars, loop_vars, flag_vars, parse_vars, task_vars>>

StoreQuery(now) ==
    /\ ops < MaxStoreOps
    /\ last' = Logged([op |-> "query", id |-> "", db_ok |-> TRUE, now |-> now,
                       pre |-> rows, ok |-> TRUE, ret |-> get_reminders_before(rows, now)])
    /\ ops' = ops + 1
    /\ UNCHANGED <<rows, sync_vars, loop_vars, flag_vars, parse_vars, task_vars>>

StoreDelete(id, db_ok) ==
    /\ ops < MaxStoreOps
    /\ LET res == delete_reminder(rows, id, db_ok)
       IN  /\ rows' = res.rows
           /\ last' = Logged([op |-> "delete", id |-> id, db_ok |-> db_ok,
                              pre |-> rows, ok |-> res.ok, ret |-> {}])
    /\ ops' = ops + 1
    /\ UNCHANGED <<sync_vars, loop_vars, flag_vars, parse_vars, task_vars>>

NextStore ==
    \/ \E id \in Ids, due \in StoreTimes, db_ok \in BOOLEAN :
         StoreAdd([id |-> id, due |-> due, destination |-> Alice, text |-> "water plants"], db_ok)
    \/ \E now \in StoreTimes : StoreQuery(now)
    \/ \E id \in Ids \cup {"id9"}, db_ok \in BOOLEAN : StoreDelete(id, db_ok)

SpecStore == Init /\ [][NextStore]_vars

(***************************************************************************)
(* The cancellation flag (futures_flag.rs) on its own: handles of one      *)
(* flag are cloned, polled, dropped and set by tasks.                      *)
(***************************************************************************)

\* FlagInner::get_next_id: a freed id if there is one, else a fresh one.
get_next_id(inn) ==
    IF inn.available_ids # <<>>
    THEN [id |-> inn.available_ids[Len(inn.available_ids)],
          inner |-> [inn EXCEPT !.available_ids = SubSeq(@, 1, Len(@) - 1)]]
    ELSE [id |-> inn.next_id, inner |-> [inn EXCEPT !.next_id = @ + 1]]

\* LinearMap::insert on the tasks map, kept as a set of <<id, task>> pairs.
MapInsert(m, id, task) == {e \in m : e[1] # id} \cup {<<id, task>>}

\* FlagInner::register_new_task
register_new_task(inn, task) ==
    LET n == get_next_id(inn)
    IN  [id |-> n.id, inner |-> [n.inner EXCEPT !.tasks = MapInsert(@, n.id, task)]]

\* FlagInner::discard_task
discard_task(inn, flag_id) ==
    [inn EXCEPT !.tasks = {e \in @ : e[1] # flag_id},
                !.available_ids = Append(@, flag_id)]

\* The handle with the least index that is not in use yet.
FreeHandle == MinOf({h \in 1..MaxHandles : handle[h].status = "unused"})

\* #[derive(Clone)] on Flag: the new handle shares inner and copies task_id.
\* The task t will own the clone.
FlagClone(h, t) ==
    /\ handle[h].status = "live"
    /\ \E u \in 1..MaxHandles : handle[u].status = "unused"
    /\ handle' = [handle EXCEPT ![FreeHandle] =
                     [status |-> "live", task_id |-> handle[h].task_id,
                      owner |-> t, parked |-> FALSE]]
    /\ UNCHANGED <<inner, notified, wraps>>
    /\ UNCHANGED <<sync_vars, rows, loop_vars, store_vars, parse_vars, task_vars>>

\* <Flag as Future>::poll, called by the task that owns the handle.
FlagPoll(h) ==
    /\ handle[h].status = "live"
    /\ IF inner.value
       THEN /\ handle' = [handle EXCEPT ![h].parked = FALSE]
            /\ UNCHANGED inner
       ELSE IF handle[h].task_id = None
       THEN LET r == register_new_task(inner, handle[h].owner)
            IN  /\ inner' = r.inner
                /\ handle' = [handle EXCEPT ![h].task_id = Some(r.id), ![h].parked = TRUE]
       ELSE /\ handle' = [handle EXCEPT ![h].parked = TRUE]
            /\ UNCHANGED inner
    /\ UNCHANGED <<notified, wraps>>
    /\ UNCHANGED <<sync_vars, rows, loop_vars, store_vars, parse_vars, task_vars>>

\* <Flag as Drop>::drop
FlagDrop(h) ==
    /\ handle[h].status = "live"
    /\ handle' = [handle EXCEPT ![h].status = "dropped", ![h].parked = FALSE]
    /\ inner' = IF handle[h].task_id = None THEN inner
                ELSE discard_task(inner, handle[h].task_id.v)
    /\ UNCHANGED <<notified, wraps>>
    /\ UNCHANGED <<sync_vars, rows, loop_vars, store_vars, parse_vars, task_vars>>

\* Flag::set through the handle h: every task in the map is notified, and a
\* notified task is no longer suspended on any of its handles.
FlagSet(h) ==
    /\ handle[h].status = "live"
    /\ inner' = [inner EXCEPT !.value = TRUE]
    /\ LET woken == {e[2] : e \in inner.tasks}
       IN  /\ notified' = notified \cup woken
           /\ handle' = [k \in 1..MaxHandles |->
                            IF handle[k].owner \in woken
                            THEN [handle[k] EXCEPT !.parked = FALSE]
                            ELSE handle[k]]
    /\ UNCHANGED wraps
    /\ UNCHANGED <<sync_vars, rows, loop_vars, store_vars, parse_vars, task_vars>>

NextFlag ==
    \/ \E h \in 1..MaxHandles, t \in Tasks : FlagClone(h, t)
    \/ \E h \in 1..MaxHandles : FlagPoll(h)
    \/ \E h \in 1..MaxHandles : FlagDrop(h)
    \/ \E h \in 1..MaxHandles : FlagSet(h)

SpecFlag == Init /\ [][NextFlag]_vars

(***************************************************************************)
(* Operations wrapped with the flag (Flag::wrap_future).  A wrapper is the  *)
(* select of a clone of the flag and the operation; it is named by the      *)
(* handle of its clone.  op is what the operation's poll returns: running   *)
(* (NotReady), ok or err once it has completed; before records whether the  *)
(* flag was still unset when it completed; out is what the wrapper returned.*)
(* The event loop is single threaded (tokio_core::reactor::Core), so set    *)
(* never runs inside a poll of a wrapper.                                   *)
(***************************************************************************)

\* Flag::wrap_future on the handle 1, called by task t: self.clone() and the select.
WrapFuture(t) ==
    /\ handle[1].status = "live"
    /\ \E u \in 1..MaxHandles : handle[u].status = "unused"
    /\ \E k \in {FreeHandle} :
         /\ handle' = [handle EXCEPT ![k] =
                          [status |-> "live", task_id |-> handle[1].task_id,
                           owner |-> t, parked |-> FALSE]]
         /\ wraps' = [wraps EXCEPT ![k] = [op |-> "running", before |-> FALSE, out |-> "none"]]
    /\ UNCHANGED <<inner, notified>>
    /\ UNCHANGED <<sync_vars, rows, loop_vars, store_vars, parse_vars, task_vars>>

\* The wrapped operation completes with res: its next poll returns res, and its task
\* is notified.
OpComplete(k, res) ==
    /\ handle[k].status = "live"
    /\ wraps[k].op = "running" /\ wraps[k].out = "none"
    /\ wraps' = [wraps EXCEPT ![k].op = res, ![k].before = ~inner.value]
    /\ handle' = [j \in 1..MaxHandles |->
                     IF handle[j].owner = handle[k].owner
                     THEN [handle[j] EXCEPT !.parked = FALSE]
                     ELSE handle[j]]
    /\ UNCHANGED <<inner, notified>>
    /\ UNCHANGED <<sync_vars, rows, loop_vars, store_vars, parse_vars, task_vars>>

\* Select::poll with the futures in the other order: the operation is polled first
WrapPoll_operation_first(k) ==
    /\ handle[k].status = "live"
    /\ wraps[k].op # "none" /\ wraps[k].out = "none"
    /\ IF wraps[k].op # "running"
       THEN /\ wraps' = [wraps EXCEPT ![k].out = wraps[k].op]
            /\ handle' = [handle EXCEPT ![k].status = "dropped", ![k].parked = FALSE]
            /\ inner' = IF handle[k].task_id = None THEN inner
                        ELSE discard_task(inner, handle[k].task_id.v)
       ELSE IF inner.value
       THEN /\ wraps' = [wraps EXCEPT ![k].out = "cancelled"]
            /\ handle' = [handle EXCEPT ![k].status = "dropped", ![k].parked = FALSE]
            /\ inner' = IF handle[k].task_id = None THEN inner
                        ELSE discard_task(inner, handle[k].task_id.v)
       ELSE \E r \in {IF handle[k].task_id = None
                      THEN register_new_task(inner, handle[k].owner)
                      ELSE [id |-> handle[k].task_id.v, inner |-> inner]} :
                /\ inner' = r.inner
                /\ handle' = [handle EXCEPT ![k].task_id = Some(r.id), ![k].parked = TRUE]
                /\ UNCHANGED wraps
    /\ UNCHANGED notified
    /\ UNCHANGED <<sync_vars, rows, loop_vars, store_vars, parse_vars, task_vars>>

\* The poll of a wrapper: Select::poll polls the clone of the flag first.  With the
\* flag set the wrapper fails with stop_error and the operation is not polled.  With
\* the flag unset the clone registers the task, then the operation is polled: its
\* result is the wrapper's, or both are pending.  A wrapper that returns drops its clone.
WrapPoll(k) ==
    /\ handle[k].status = "live"
    /\ wraps[k].op # "none" /\ wraps[k].out = "none"
    /\ IF inner.value
       THEN /\ wraps' = [wraps EXCEPT ![k].out = "cancelled"]
            /\ handle' = [handle EXCEPT ![k].status = "dropped", ![k].parked = FALSE]
            /\ inner' = IF handle[k].task_id = None THEN inner
                        ELSE discard_task(inner, handle[k].task_id.v)
       ELSE \E r \in {IF handle[k].task_id = None
                      THEN register_new_task(inner, handle[k].owner)
                      ELSE [id |-> handle[k].task_id.v, inner |-> inner]} :
                IF wraps[k].op = "running"
                THEN /\ inner' = r.inner
                     /\ handle' = [handle EXCEPT ![k].task_id = Some(r.id), ![k].parked = TRUE]
                     /\ UNCHANGED wraps
                ELSE /\ wraps' = [wraps EXCEPT ![k].out = wraps[k].op]
                     /\ inner' = discard_task(r.inner, r.id)
                     /\ handle' = [handle EXCEPT ![k].status = "dropped",
                                                 ![k].task_id = Some(r.id),
                                                 ![k].parked = FALSE]
    /\ UNCHANGED notified
    /\ UNCHANGED <<sync_vars, rows, loop_vars, store_vars, parse_vars, task_vars>>

NextWrap ==
    \/ \E t \in Tasks : WrapFuture(t)
    \/ \E k \in 1..MaxHandles, res \in {"ok", "err"} : OpComplete(k, res)
    \/ \E k \in 1..MaxHandles : WrapPoll(k)
    \/ FlagSet(1)

SpecWrap == Init /\ [][NextWrap]_vars

(***************************************************************************)
(* The parser applied to phrases and instants drawn from finite sets.      *)
(***************************************************************************)

Phrases ==
    { "tomorrow", "Tomorrow at 1800", "tomorrow at 9900", "day after tomorrow",
      "next week", "next week at 10:00",
      "in 1 week", "in 1 week at 10:00", "in a few hours", "in half an hour",
      "in a couple of days", "in 0 seconds", "in 5 seconds", "in 90 minutes",
      "in 47 hours", "in 49 hours", "in 1 month", "in 2 months", "in 1 year",
      "in 1 hour at 08:00", "in 1 hour at 9am", "in 10000000 years", "in 10000001 s",
      "wed", "on monday", "on tues", "tue", "thursday at 5pm", "on friday at 12pm",
      "sat at 00:00", " Sunday  at 9:10", "tue at 09:10",
      "thu", "friday", "sat", "on sunday",
      "in half a second", "in 48 hours", "in 3 d", "in half a week",
      "tomorrow at 25:00", "wed at 12:60",
      "on 2017-12-04", "on 2014-01-01", "on 2014-07-08", "2014-07-09 at 09:10",
      "on 2015-02-29", "on 2016-02-29", "on 2014-04-31",
      "at 10:00", "whenever" }

\* The dates of the instants: a whole week, month ends, a leap day, a year end.
NowDays ==
    {DaysFromCivil(2014, 7, d) : d \in 7..13}
        \cup {DaysFromCivil(2014, 1, 31), DaysFromCivil(2016, 2, 29),
              DaysFromCivil(2014, 12, 31)}

\* Their times of day.
NowSecs == {0, 9 * 3600 + 10 * 60 + 11, 9 * 3600 + 30 * 60, 9 * 3600 + 10 * 60, DaySecs - 1}

Nows == {DT(d, sec, sub) : d \in NowDays, sec \in NowSecs, sub \in 0..(Subs - 1)}

InitParse ==
    /\ InitSync /\ InitLoop /\ InitStore /\ InitFlag
    /\ p_input \in Phrases
    /\ p_now \in Nows
    /\ p_result = Pending

\* parse_human_datetime is called.
Parse ==
    /\ p_result = Pending
    /\ p_result' = parse_human_datetime(p_input, p_now)
    /\ UNCHANGED <<p_input, p_now>>
    /\ UNCHANGED <<sync_vars, rows, loop_vars, store_vars, flag_vars, task_vars>>

NextParse == Parse

SpecParse == InitParse /\ [][NextParse]_vars

(***************************************************************************)
(* Properties.                                                             *)
(***************************************************************************)

IsSnapshot(item) == item.kind = "snapshot"

\* The snapshots the sync stream has yielded, oldest first.
Snapshots == SelectSeq(stream, IsSnapshot)

\* C1: the first snapshot the sync loop emits carries is_live = false and
\* every later snapshot carries is_live = true, whatever failed attempts lie
\* between them.
C1_FirstSnapshotIsCatchUp ==
    \A i \in 1..Len(Snapshots) : Snapshots[i].is_live = (i > 1)

\* C1 witness: a failed attempt, then two snapshots.
C1_Witness ==
    /\ Len(Snapshots) >= 2
    /\ stream # <<>> /\ stream[1].kind = "error"

\* C2: next_batch changes only in a step in which a sync succeeds, and then
\* it becomes that response's next_batch; a step in which attempts only fail
\* or are cancelled leaves it as it was.
C2_NextBatchOnlyOnSuccess ==
    [][LET new == SubSeq(stream', Len(stream) + 1, Len(stream'))
       IN  IF \E i \in 1..Len(new) : new[i].kind = "snapshot"
           THEN state'.next_batch = new[1].sync_response.next_batch
           ELSE state'.next_batch = state.next_batch]_vars

\* C2 witness: a snapshot followed by two failed attempts, the token still
\* the snapshot's.
C2_Witness ==
    \E i \in 1..Len(stream) :
        /\ stream[i].kind = "snapshot"
        /\ Len(stream) >= i + 2
        /\ \A j \in (i + 1)..Len(stream) : stream[j].kind = "error"
        /\ state.next_batch = stream[i].sync_response.next_batch

\* C3: once the flag is set during an iteration (in the backoff sleep, with
\* the request in flight, or while the body is read and parsed), the
\* iteration ends with Cancelled, no further request is issued and the
\* stream terminates.
C3_CancelWinsInEveryPhase ==
    [][(stop /\ pc \in {"sleep", "request", "body"} /\ stream' # stream)
          => /\ stream'[Len(stream) + 1] = Cancelled
             /\ requests' = requests
             /\ pc' = "done"]_vars

\* C4: every event handed to handle_event comes from a snapshot with
\* is_live = true; up to and including the first snapshot nothing is
\* inserted and no reply is posted.
C4_CatchUpIsIgnored ==
    /\ \A i \in 1..Len(handled) :
          /\ stream[handled[i].item].kind = "snapshot"
          /\ stream[handled[i].item].is_live
    /\ Len(Snapshots) <= 1 => (rows = {} /\ spawned = <<>> /\ handled = <<>>)

\* C4 witness: after a failed attempt the first snapshot arrived with events
\* in it.
C4_Witness ==
    /\ Len(stream) = 2 /\ stream[1].kind = "error" /\ stream[2].kind = "snapshot"
    /\ events(stream[2].sync_response.join) # <<>>

\* The handled event is a message whose body matches the command grammar and
\* whose phrase parses to an instant after the instant it was handled at.
IsCommand(h) ==
    LET After(due) == due.tag = "ok" /\ DtLt(h.now, due.date)
        Captured(capt) == capt.matched /\ After(parse_human_datetime(capt.g1, h.now))
    IN  /\ h.event.etype = "m.room.message" /\ h.event.has_body
        /\ Captured(reminder_regex(h.event.body))

\* The call inserted exactly one row: the sender's, with the `what` text,
\* due at the parsed instant (in the table's whole seconds), not sent.
InsertedTheReminder(h) ==
    LET Row(text, due_ts) ==
            \E r \in h.inserted :
                /\ h.inserted = {r}
                /\ r.destination = h.event.sender
                /\ r.text = text
                /\ r.due_ts = due_ts
                /\ r.sent = FALSE
        Captured(capt) ==
            Row(capt.g2, timestamp(parse_human_datetime(capt.g1, h.now).date))
    IN  Captured(reminder_regex(h.event.body))

\* The call posted exactly one reply, to the room the event came from.
RepliedOnce(h) == Len(h.replies) = 1 /\ h.replies[1].room = h.room_id

\* C5 as claimed: every live command event inserts exactly one row (the
\* sender's, with the `what` text, due at the parsed instant, not sent) and
\* posts exactly one reply to its room.
C5_CommandInsertsOneRow ==
    \A i \in 1..Len(handled) :
        IsCommand(handled[i]) => InsertedTheReminder(handled[i]) /\ RepliedOnce(handled[i])

\* C5 amended: every live command event posts exactly one reply to its room;
\* either the insert succeeded, then exactly that one row was inserted and the
\* reply confirms the queuing, or the insert failed, then no row was inserted
\* and the reply reports the persistence error.
C5_CommandRepliesOnce ==
    \A i \in 1..Len(handled) :
        IsCommand(handled[i]) =>
            /\ RepliedOnce(handled[i])
            /\ \/ InsertedTheReminder(handled[i]) /\ handled[i].replies[1].msg = "queued"
               \/ handled[i].inserted = {} /\ handled[i].replies[1].msg = "persist_error"

\* C5 witness: one command inserted its row, another met a failing insert.
C5_Witness ==
    \E i, j \in 1..Len(handled) :
        /\ IsCommand(handled[i]) /\ InsertedTheReminder(handled[i])
        /\ IsCommand(handled[j]) /\ handled[j].inserted = {}

IsSendTask(task) == task.kind \in {"sms", "drop"}

\* C6: while the process has not crashed, the dispatcher has spawned at most
\* one send task per reminder id over all its ticks.
C6_OneSendTaskPerReminder ==
    proc # "crashed" =>
        \A i, j \in 1..Len(spawned) :
            (IsSendTask(spawned[i]) /\ IsSendTask(spawned[j]) /\ spawned[i].id = spawned[j].id)
                => i = j

\* C6 witness: a reminder was dispatched, then another command was queued and
\* dispatched by a later tick, which saw the first reminder marked sent.
C6_Witness ==
    /\ proc = "running"
    /\ \E i, j, k \in 1..Len(spawned) :
          /\ i < j /\ j < k
          /\ IsSendTask(spawned[i]) /\ spawned[j].kind = "reply" /\ IsSendTask(spawned[k])

\* C7: a due-query returns exactly the rows whose due is at or before now and
\* whose sent flag is false.
C7_QueryReturnsDueUnsent ==
    (last # <<>> /\ last[1].op = "query") =>
        last[1].ret = {r \in rows : ~r.sent /\ DtLe(DT(r.due_ts.day, r.due_ts.sec, 0), last[1].now)}

\* C7 witness: a query returned some rows of a table and left others out.
C7_Witness ==
    /\ last # <<>> /\ last[1].op = "query"
    /\ last[1].ret # {} /\ last[1].ret # rows

\* C8: marking the same id sent twice in succession leaves the table as the
\* first call left it, and marking an id the table does not hold succeeds and
\* changes nothing.
C8_MarkSentIdempotent ==
    /\ (/\ Len(last) = 2
        /\ last[1].op = "delete" /\ last[2].op = "delete" /\ last[1].id = last[2].id
        /\ last[1].db_ok /\ last[2].db_ok)
          => (last[1].ok /\ rows = last[1].pre)
    /\ (/\ last # <<>> /\ last[1].op = "delete" /\ last[1].db_ok
        /\ \A r \in last[1].pre : r.id # last[1].id)
          => (last[1].ok /\ rows = last[1].pre)

\* C8 witness: an unsent reminder was marked sent twice in succession.
C8_Witness ==
    /\ Len(last) = 2
    /\ last[1].op = "delete" /\ last[2].op = "delete" /\ last[1].id = last[2].id
    /\ last[1].db_ok /\ last[2].db_ok
    /\ \E r \in last[2].pre : r.id = last[2].id /\ ~r.sent

\* C9: once set has been called, no task is left suspended on a live handle
\* of the flag: set woke every task that was waiting.
C9_SetWakesEveryWaiter ==
    inner.value => \A h \in 1..MaxHandles : handle[h].status = "live" => ~handle[h].parked

\* The phrase's base date is an absolute date earlier than the date of now.
NamesEarlierDate(raw, now) ==
    LET Earlier(b) == b.clause = "date" /\ b.res.tag = "ok" /\ b.res.date.day < now.day
    IN  Earlier(base_date(to_lowercase(trim(raw)), now))

\* C10 as claimed: a successful parse yields an instant strictly after now.
C10_ResultAfterNow ==
    p_result.tag = "ok" => DtLt(p_now, p_result.date)

\* C10 amended: a successful parse yields an instant that is not before now,
\* unless the phrase names an absolute date earlier than the date of now.
C10_ResultNotBeforeNow ==
    (p_result.tag = "ok" /\ ~NamesEarlierDate(p_input, p_now)) => DtLe(p_now, p_result.date)

\* C10 witness: a parse that succeeded with exactly now.
C10_Witness ==
    p_result.tag = "ok" /\ p_result.date = p_now

\* 09:30:00 as seconds of the day.
MorningSecs == 9 * 3600 + 30 * 60

\* C11: a bare weekday phrase (optionally prefixed by "on") yields weekday W at
\* 09:30:00, W of the current ISO week or W of the following week.  The phrases are
\* paired with the weekday they name (days from Monday).
C11_WeekdayPhraseFallsOnWeekday ==
    LET DayThisWeek(w) == p_now.day - num_days_from_monday(p_now) + w
    IN  \A wp \in { <<"on monday", 0>>, <<"tue", 1>>, <<"wed", 2>>, <<"thu", 3>>,
                    <<"friday", 4>>, <<"sat", 5>>, <<"on sunday", 6>> } :
            (p_input = wp[1] /\ p_result # Pending) =>
                /\ p_result.tag = "ok"
                /\ num_days_from_monday(p_result.date) = wp[2]
                /\ p_result.date.sec = MorningSecs
                /\ p_result.date.day \in {DayThisWeek(wp[2]), DayThisWeek(wp[2]) + 7}

\* C12: `in <count> <unit>` (seconds to weeks, count at most MaxNumber) without an
\* at-clause yields exactly now + count * seconds-per-unit when that is at most 48 hours
\* after now, and the date of that instant at 09:30:00 when it is more than 48 hours
\* after.  The phrases are paired with twice their count and the seconds of their unit.
C12_InClauseAddsCountTimesUnit ==
    LET SecsBetween(a, b) == (b.day - a.day) * DaySecs + b.sec - a.sec
    IN  \A ip \in { <<"in 0 seconds", 0, 1>>, <<"in 5 seconds", 10, 1>>,
                    <<"in half a second", 1, 1>>, <<"in 90 minutes", 180, 60>>,
                    <<"in half an hour", 1, 3600>>, <<"in a few hours", 6, 3600>>,
                    <<"in 47 hours", 94, 3600>>, <<"in 48 hours", 96, 3600>>,
                    <<"in 49 hours", 98, 3600>>, <<"in a couple of days", 4, DaySecs>>,
                    <<"in 3 d", 6, DaySecs>>, <<"in 1 week", 2, 7 * DaySecs>>,
                    <<"in half a week", 1, 7 * DaySecs>> } :
            (p_input = ip[1] /\ p_result # Pending) =>
                /\ p_result.tag = "ok"
                /\ IF ip[2] * ip[3] <= 2 * 48 * 3600
                   THEN /\ p_result.date.sub = p_now.sub
                        /\ 2 * SecsBetween(p_now, p_result.date) = ip[2] * ip[3]
                   ELSE /\ p_result.date.sec = MorningSecs
                        /\ p_result.date.day =
                               p_now.day + (2 * p_now.sec + ip[2] * ip[3]) \div (2 * DaySecs)

\* C13: `in <count> month(s)` adds count * 30 days, and with count >= 1 the result keeps
\* the day-of-month of now.  The phrases are paired with their count.
C13_MonthsResolveAsMonths ==
    \A mp \in { <<"in 1 month", 1>>, <<"in 2 months", 2>> } :
        (p_input = mp[1] /\ p_result # Pending) =>
            /\ p_result.tag = "ok"
            /\ MonthOf(p_result.date) = MonthOf(AddDays(p_now, 30 * mp[2]))
            /\ YearOf(p_result.date) = YearOf(AddDays(p_now, 30 * mp[2]))
            /\ DayOf(p_result.date) = DayOf(p_now)

\* C14: after a matched base date, `at HH:MM` / `at HHMM` sets hour and minute, seconds 0,
\* on the base date's calendar day unless that instant is before now; an hour above 23
\* or a minute above 59 fails the parse.  The phrases are paired with the hour and the
\* minute they give.
C14_AtTimeSetsHourMinute ==
    LET Set(ap, base) ==
            IF ap[2] > 23 \/ ap[3] > 59 THEN p_result.tag = "err"
            ELSE /\ p_result.tag = "ok"
                 /\ p_result.date.sec = ap[2] * 3600 + ap[3] * 60
                 /\ \/ p_result.date.day = base.date.day
                    \/ DtLt(DT(base.date.day, ap[2] * 3600 + ap[3] * 60, base.date.sub), p_now)
        Matched(ap, base) == base.tag = "ok" => Set(ap, base)
    IN  \A ap \in { <<"Tomorrow at 1800", 18, 0>>, <<"tomorrow at 9900", 99, 0>>,
                    <<"tomorrow at 25:00", 25, 0>>, <<"wed at 12:60", 12, 60>>,
                    <<"in 1 week at 10:00", 10, 0>>, <<"in 1 hour at 08:00", 8, 0>>,
                    <<"sat at 00:00", 0, 0>>, <<" Sunday  at 9:10", 9, 10>>,
                    <<"tue at 09:10", 9, 10>>, <<"2014-07-09 at 09:10", 9, 10>>,
                    <<"next week at 10:00", 10, 0>>, <<"at 10:00", 10, 0>> } :
            (p_input = ap[1] /\ p_result # Pending) =>
                Matched(ap, base_date(to_lowercase(trim(p_input)), p_now).res)

\* C14 witness: an at-clause moved a base date at 09:30:00 to 10:00:00 of the same day.
C14_Witness ==
    /\ p_input = "in 1 week at 10:00"
    /\ p_result.tag = "ok"
    /\ p_result.date.sec = 10 * 3600
    /\ p_result.date.day = p_now.day + 7

\* C15: `on YYYY-MM-DD` naming a valid date D later than the date of now succeeds with D
\* at 09:30:00; a phrase naming an invalid calendar date fails.  The phrases are paired
\* with the year, month and day they name.
C15_LaterDateSucceeds ==
    LET ValidDate(y, m, d) == m \in 1..12 /\ d \in 1..DaysInMonth(y, m)
    IN  \A dp \in { <<"on 2017-12-04", 2017, 12, 4>>, <<"on 2014-01-01", 2014, 1, 1>>,
                    <<"on 2014-07-08", 2014, 7, 8>>, <<"on 2016-02-29", 2016, 2, 29>>,
                    <<"on 2015-02-29", 2015, 2, 29>>, <<"on 2014-04-31", 2014, 4, 31>> } :
            (p_input = dp[1] /\ p_result # Pending) =>
                IF ~ValidDate(dp[2], dp[3], dp[4]) THEN p_result.tag = "err"
                ELSE DaysFromCivil(dp[2], dp[3], dp[4]) > p_now.day =>
                         /\ p_result.tag = "ok"
                         /\ p_result.date.day = DaysFromCivil(dp[2], dp[3], dp[4])
                         /\ p_result.date.sec = MorningSecs

\* C16: errored holds at the start of an iteration exactly when the previous attempt
\* failed; a request that follows a failed attempt goes out after the backoff sleep, the
\* first request and a request that follows a success go out without a sleep.
C16_BackoffExactlyAfterFailure ==
    /\ state.errored <=> (stream # <<>> /\ ~IsSnapshot(stream[Len(stream)]))
    /\ pc = "sleep" => state.errored
    /\ \A i \in 1..Len(requests) :
           requests[i].slept <=> (i > 1 /\ stream[i - 1].kind = "error")

\* C16 witness: a request sent after the sleep that followed a failure, and then a
\* request sent at once after a success.
C16_Witness ==
    /\ Len(requests) >= 3
    /\ stream[1].kind = "error" /\ requests[2].slept
    /\ IsSnapshot(stream[2]) /\ ~requests[3].slept

\* C17: a failed attempt (transport, status or body) yields an error outcome and the loop
\* goes on to another attempt; the stream ends only with the flag set, and Cancelled is
\* yielded only with the flag set, as the last outcome.
C17_ErrorsNeverEndTheStream ==
    /\ pc = "done" => (stop /\ stream[Len(stream)] = Cancelled)
    /\ \A i \in 1..Len(stream) :
           /\ stream[i] = Cancelled => (stop /\ i = Len(stream))
           /\ stream[i] = Errored =>
                  (i < Len(stream) \/ pc \in {"sleep", "request", "body", "bounded"})

\* C17 witness: failures of the request and of the body, each followed by another
\* attempt, and the stream ended by the flag.
C17_Witness ==
    /\ Len(stream) >= 3
    /\ stream[1] = Errored /\ stream[2] = Errored
    /\ pc = "done"

\* C18: every sync request carries the next_batch of the most recent successful response
\* as its since token, with the 60 second timeout; it carries neither token nor timeout
\* exactly when no sync has succeeded before it.
C18_RequestCarriesLatestToken ==
    \A i \in 1..Len(requests) :
        IF \A j \in 1..(i - 1) : ~IsSnapshot(stream[j])
        THEN requests[i].req = [since |-> NoToken, timeout |-> 0]
        ELSE \E j \in 1..(i - 1) :
                 /\ IsSnapshot(stream[j])
                 /\ \A k \in (j + 1)..(i - 1) : ~IsSnapshot(stream[k])
                 /\ requests[i].req.since # NoToken
                 /\ requests[i].req =
                        [since |-> stream[j].sync_response.next_batch, timeout |-> 60000]

\* C18 witness: a first request without token, and a request after a success and a
\* failure that carries the token of the success.
C18_Witness ==
    /\ Len(requests) >= 3
    /\ IsSnapshot(stream[1]) /\ stream[2] = Errored
    /\ requests[1].req.since = NoToken
    /\ requests[3].req.since = stream[1].sync_response.next_batch

\* C20: the registration table holds exactly one entry for each live handle polled while
\* the flag was unset and none for a dropped handle, the ids of live waiters are pairwise
\* distinct, and no id is registered and free at once, or free twice.  The waiters are
\* the live handles suspended on the flag.
C20_RegistrationTableConsistent ==
    LET Waiters == {h \in 1..MaxHandles : handle[h].status = "live" /\ handle[h].parked}
        Registered == {e[1] : e \in inner.tasks}
    IN  /\ \A h \in Waiters :
               /\ handle[h].task_id # None
               /\ Cardinality({e \in inner.tasks : e[1] = handle[h].task_id.v}) = 1
        /\ \A id \in Registered :
               \E h \in 1..MaxHandles :
                   handle[h].status = "live" /\ handle[h].task_id = Some(id)
        /\ \A h1, h2 \in Waiters : h1 # h2 => handle[h1].task_id # handle[h2].task_id
        /\ \A i \in 1..Len(inner.available_ids) :
               /\ inner.available_ids[i] \notin Registered
               /\ \A j \in 1..Len(inner.available_ids) :
                      i # j => inner.available_ids[i] # inner.available_ids[j]

\* C19 as claimed: a wrapper returns the operation's own result when the operation
\* completed before the flag was set, and Cancelled when the flag was set before the
\* operation completed; a flag already set at the first poll of the wrapper (its clone
\* never registered) counts as set first.
C19_FirstToHappenWins ==
    \A k \in 1..MaxHandles :
        wraps[k].out # "none" =>
            IF handle[k].task_id # None /\ wraps[k].op # "running" /\ wraps[k].before
            THEN wraps[k].out = wraps[k].op
            ELSE wraps[k].out = "cancelled"

\* C19 amended: a wrapper returns at a poll; with the flag set at that poll it fails
\* with Cancelled, whether or not the operation has completed, and with the flag unset
\* it returns the result of the completed operation.
C19_FlagFirstAtEachPoll ==
    [][\A k \in 1..MaxHandles :
           wraps'[k].out # wraps[k].out =>
               IF inner.value THEN wraps'[k].out = "cancelled"
               ELSE wraps[k].op \in {"ok", "err"} /\ wraps'[k].out = wraps[k].op]_vars

\* C19 witness: one wrapper returned its operation's error; another, polled before
\* the flag was set, was cancelled although its operation had completed by then.
C19_Witness ==
    \E k1, k2 \in 1..MaxHandles :
        /\ wraps[k1].out = "err" /\ wraps[k1].op = "err"
        /\ wraps[k2].out = "cancelled" /\ wraps[k2].op = "ok" /\ wraps[k2].before
        /\ handle[k2].task_id # None

\* C21: no wake-up is lost.  In every step a live handle is suspended on the flag only
\* while the flag is unset and its own task is registered under its id, so that set
\* notifies it; and once set the flag never becomes unset.
C21_NoLostWakeup ==
    [][/\ inner.value => inner'.value
       /\ \A h \in 1..MaxHandles :
              (handle'[h].status = "live" /\ handle'[h].parked) =>
                  /\ ~inner'.value
                  /\ handle'[h].task_id # None
                  /\ <<handle'[h].task_id.v, handle'[h].owner>> \in inner'.tasks]_vars

\* C22: in a tick that completes, every reminder due at the instant of the tick gets one
\* send task and is marked sent in that same step, before any task has run; a reminder
\* whose originator has no address-book entry, or whose lookup fails, gets a task that
\* sends nothing and is marked sent all the same, so no later query returns it.
C22_MarkedSentInTheSameTick ==
    [][(ticks' = ticks + 1 /\ proc' = "running") =>
          LET due == get_reminders_before(rows, clock')
              new == SubSeq(spawned', Len(spawned) + 1, Len(spawned'))
          IN  /\ Len(new) = Cardinality(due)
              /\ \A r \in due :
                     /\ [r EXCEPT !.sent = TRUE] \in rows'
                     /\ r \notin rows'
                     /\ \E i \in 1..Len(new) :
                            /\ new[i].id = r.id
                            /\ r.destination \notin DOMAIN AddressBook => new[i].kind = "drop"
                            /\ new[i].kind = "sms" =>
                                   /\ new[i].to = AddressBook[r.destination]
                                   /\ new[i].body = r.text
              /\ get_reminders_before(rows', clock') = {}]_vars

\* C22 witness: a reminder of an originator without address-book entry was given a task
\* that sends nothing and is marked sent, next to a reminder that was sent by SMS.
C22_Witness ==
    /\ proc = "running"
    /\ \E i, j \in 1..Len(spawned) :
           /\ spawned[i].kind = "drop" /\ spawned[j].kind = "sms"
           /\ \E r \in rows : r.id = spawned[i].id /\ r.sent /\ r.destination = Bob

\* C23: a tick in which the due-query or a mark-sent update fails leaves the dispatcher
\* running, and every reminder that was due at the tick is then either dispatched and
\* marked sent or still unsent in the store for a later tick.
C23_DispatcherSurvivesStoreFailure ==
    [][ticks' = ticks + 1 =>
          /\ proc' = "running"
          /\ \A r \in get_reminders_before(rows, clock') :
                 r \in rows' \/ [r EXCEPT !.sent = TRUE] \in rows']_vars

\* C24: a command whose parsed due instant is not strictly after the instant it is
\* handled at (an instant equal to it included) inserts no row and is answered with the
\* one reply "due date in past".
C24_NotAfterNowIsRefused ==
    LET Refused(h) ==
            /\ h.inserted = {}
            /\ Len(h.replies) = 1 /\ h.replies[1].msg = "past"
        Due(h, due) == (due.tag = "ok" /\ ~DtLt(h.now, due.date)) => Refused(h)
        Captured(h, capt) == capt.matched => Due(h, parse_human_datetime(capt.g1, h.now))
    IN  \A i \in 1..Len(handled) :
            (handled[i].event.etype = "m.room.message" /\ handled[i].event.has_body)
                => Captured(handled[i], reminder_regex(handled[i].event.body))

\* C25: an event that is no message, has no string body, lacks the bot prefix, does not
\* match the command grammar, or whose phrase fails to parse inserts nothing; in the
\* first three cases no reply is posted, and a phrase that fails to parse is answered
\* with exactly one error reply that names the phrase.
C25_RejectedEventsLeaveTheStore ==
    LET Failed(h, at, due) ==
            due.tag = "err" =>
                /\ h.inserted = {}
                /\ h.replies = <<Reply(h.room_id, "parse_error", at)>>
        Captured(h, capt) ==
            IF ~capt.matched THEN h.inserted = {}
            ELSE Failed(h, capt.g1, parse_human_datetime(capt.g1, h.now))
    IN  \A i \in 1..Len(handled) :
            IF \/ handled[i].event.etype # "m.room.message"
               \/ ~handled[i].event.has_body
               \/ ~StartsAt(handled[i].event.body, 1, "testbot:")
            THEN handled[i].inserted = {} /\ handled[i].replies = <<>>
            ELSE Captured(handled[i], reminder_regex(handled[i].event.body))

\* C25 witness: one snapshot brought a phrase that fails to parse, an event without
\* body and a message outside the grammar; only the first was answered.
C25_Witness ==
    \E i, j, k \in 1..Len(handled) :
        /\ handled[i].event = EvBad /\ Len(handled[i].replies) = 1
        /\ handled[j].event = EvNoBody /\ handled[j].replies = <<>>
        /\ handled[k].event = EvUnrec /\ handled[k].replies = <<>>
        /\ rows = {}

\* C26: events are handled in the order the server returned them.  The calls of
\* handle_event follow the snapshots in stream order, and the calls made for one
\* snapshot take its events one by one in the order of SyncResponse::events, which keeps
\* each room's timeline order.
C26_EventsHandledInOrder ==
    /\ \A i, j \in 1..Len(handled) : i < j => handled[i].item <= handled[j].item
    /\ \A i \in 1..Len(handled) :
           LET Nth(evs, k) ==
                   /\ k <= Len(evs)
                   /\ evs[k] = [room_id |-> handled[i].room_id, event |-> handled[i].event]
           IN  Nth(events(stream[handled[i].item].sync_response.join),
                   Cardinality({j \in 1..i : handled[j].item = handled[i].item}))

\* C26 witness: the events of two rooms of one snapshot were handled, and after them an
\* event of a later snapshot.
C26_Witness ==
    \E i, j, k \in 1..Len(handled) :
        /\ i < j /\ j < k
        /\ handled[i].item = handled[j].item /\ handled[i].room_id # handled[j].room_id
        /\ handled[j].item < handled[k].item

(***************************************************************************)
(* Shutdown (main.rs): the event handler, the ticker and the tasks spawned  *)
(* on the one Core, with the flag set while a sync is awaited.  core.run    *)
(* returns when the future of start_from_sync completes, main returns after *)
(* it, and the Core is dropped with whatever tasks are still on it.         *)
(***************************************************************************)

\* A spawned task is polled by the Core until it completes; only a running
\* Core polls.
TaskDone(i) ==
    /\ proc = "running"
    /\ i \in 1..Len(spawned) /\ i \notin finished
    /\ finished' = finished \cup {i}
    /\ UNCHANGED <<sync_vars, rows, loop_vars, store_vars, flag_vars, parse_vars>>

\* The database answers every tick here (SpecDispatch explores its failures).
NextShutdown ==
    \/ Run
    \/ SetFlag
    \/ Cancel
    \/ \E event \in TickerEvents, id \in Ids : Event("!a", event, id, TRUE)
    \/ \E delta \in ClockSteps :
         \E order \in Orders(get_reminders_before(rows, Step(clock, delta))) :
           Tick(delta, TRUE, order, 0, {})
    \/ \E i \in 1..Len(spawned) : TaskDone(i)

SpecShutdown == Init /\ [][NextShutdown]_vars

\* C27: when the process has exited after the stream ended, every task that
\* was spawned before has run to completion.
C27_SpawnedTasksFinishBeforeExit ==
    proc = "exited" => \A i \in 1..Len(spawned) : i \in finished

\* C28: no operation of the store removes a row, changes the due, the
\* destination or the text a row was inserted with, or turns a sent flag from
\* true back to false; a due-query changes no row at all.
C28_RowsAreNeverRemovedOrRewritten ==
    [][/\ \A r \in rows :
            \E n \in rows' :
                /\ n.id = r.id /\ n.due_ts = r.due_ts
                /\ n.destination = r.destination /\ n.text = r.text
                /\ (r.sent => n.sent)
       /\ (ops' = ops + 1 /\ last'[1].op = "query") => rows' = rows]_vars

\* C28 witness: after a reminder was marked sent, a due-query returned another
\* reminder, and the sent one is still in the table.
C28_Witness ==
    /\ Len(last) = 2
    /\ last[2].op = "delete" /\ last[1].op = "query"
    /\ last[1].ret # {}
    /\ \E r \in rows : r.sent /\ r.id = last[2].id /\ r \notin last[1].ret

(***************************************************************************)
(* The ticker under its schedule: spawn_reminder_loop (main.rs) runs        *)
(* do_reminders at every firing of an interval timer that never stops, so   *)
(* a tick that can happen does happen.  The database answers every query,   *)
(* every update and every lookup here (SpecDispatch explores failures).     *)
(***************************************************************************)

DispatchTick ==
    \E delta \in ClockSteps :
      \E order \in Orders(get_reminders_before(rows, Step(clock, delta))) :
        Tick(delta, TRUE, order, 0, {})

NextDispatchFair ==
    \/ DispatchTick
    \/ \E event \in TickerEvents, id \in Ids : Event("!a", event, id, TRUE)

SpecDispatchFair == Init /\ [][NextDispatchFair]_vars /\ WF_vars(DispatchTick)

C30_ParseNeverAborts ==
    p_result # Pending => p_result.tag \in {"ok", "err"}

====
